---------------------------- MODULE Spec2Model ----------------------------
(***************************************************************************)
(* The legacy XML-RPC gateway of warehouse                                 *)
(* (warehouse/legacy/api/xmlrpc/views.py): the registration of one view    *)
(* under three endpoints, the metrics and rate-limit decorators, the typed *)
(* argument mapper, the fault classes, the exception view, the view bodies *)
(* and the XML sanitizer.                                                  *)
(*                                                                         *)
(* Text is a sequence of pieces (TLA+ strings) where only the pieces       *)
(* matter, and a sequence of code points where the characters matter (the  *)
(* sanitizer).  A decoded XML-RPC value is modelled by its Python type and, *)
(* for arrays and structs, the types of its members: the typed mapper      *)
(* looks at nothing else.                                                  *)
(***************************************************************************)
EXTENDS Integers, Sequences, FiniteSets, TLC

VARIABLES
    pc,          \* where the request being served is in the view pipeline
    req,         \* the request: endpoint, method, verb, remote_addr, args
    calls,       \* requests received so far
    hits,        \* IRateLimiter.hit(identity) calls recorded, per identity
    window,      \* the limiter's count of hits in the current window
    reached,     \* requests that entered ratelimit().wrapped, per identity
    verdict,     \* what the limiter answered for this request
    trace,       \* the service calls and stages of this request, in order
    inner,       \* what the decorated view returned or raised
    outer,       \* what submit_xmlrpc_metrics().wrapped returned or raised
    response,    \* what the renderer is handed: a value or a fault
    first,       \* the same request's run on another endpoint (replay)
    data,        \* the sanitizer's input
    cleaned,     \* _clean_for_xml(data)
    recleaned    \* _clean_for_xml(_clean_for_xml(data))

vars == <<pc, req, calls, hits, window, reached, verdict, trace, inner,
          outer, response, first, data, cleaned, recleaned>>

cleanVars == <<data, cleaned, recleaned>>

-----------------------------------------------------------------------------
(* Bounds of the model *)

MaxCalls == 2      \* requests served in one behaviour

MaxArgs == 2       \* positional arguments of a request (validation runs)

MaxLen == 3        \* code points of a sanitizer input

Quota == 1         \* hits a caller may make in one window

-----------------------------------------------------------------------------
(* Sequence helpers *)

RECURSIVE Flatten(_)
Flatten(ss) == IF ss = <<>> THEN <<>> ELSE Head(ss) \o Flatten(Tail(ss))

\* sep.join(parts), the result kept as pieces
RECURSIVE Join(_, _)
Join(parts, sep) ==
    IF parts = <<>> THEN <<>>
    ELSE IF Len(parts) = 1 THEN <<parts[1]>>
    ELSE <<parts[1], sep>> \o Join(Tail(parts), sep)

Range(s) == {s[i] : i \in 1..Len(s)}

Count(s, e) == Cardinality({i \in 1..Len(s) : s[i] = e})

SeqsUpTo(S, n) == UNION {[1..k -> S] : k \in 0..n}

-----------------------------------------------------------------------------
(* Decoded XML-RPC values: the Python type, and the member types of a list *)
(* or of a dict (whose keys are always str).                               *)

Scalar(t) == [type |-> t, items |-> <<>>]

PyStr == Scalar("str")

PyInt == Scalar("int")

PyBool == Scalar("bool")

PyNone == Scalar("NoneType")

PyList(ts) == [type |-> "list", items |-> ts]

PyDict(ts) == [type |-> "dict", items |-> ts]

-----------------------------------------------------------------------------
(* The registered methods and their signatures (the parameters after       *)
(* request), as the view functions declare them.                           *)

Param(n, a, r) == [name |-> n, ann |-> a, required |-> r]

Methods ==
    {"search", "list_packages", "list_packages_with_serial",
     "package_hosting_mode", "user_packages", "top_packages",
     "package_releases", "package_data", "release_data", "package_urls",
     "release_urls", "package_roles", "changelog_last_serial",
     "changelog_since_serial", "changelog", "browse", "system.multicall"}

Signature(m) ==
    CASE m = "search" ->
           <<Param("spec", "Mapping[StrictStr, StrictStr | list[StrictStr]]", TRUE),
             Param("operator", "StrictStr", FALSE)>>
      [] m = "list_packages" -> <<>>
      [] m = "list_packages_with_serial" -> <<>>
      [] m = "package_hosting_mode" -> <<Param("package_name", "StrictStr", TRUE)>>
      [] m = "user_packages" -> <<Param("username", "StrictStr", TRUE)>>
      [] m = "top_packages" -> <<Param("num", "StrictInt | None", FALSE)>>
      [] m = "package_releases" ->
           <<Param("package_name", "StrictStr", TRUE),
             Param("show_hidden", "StrictBool", FALSE)>>
      [] m = "package_data" ->
           <<Param("package_name", "Any", TRUE), Param("version", "Any", TRUE)>>
      [] m = "release_data" ->
           <<Param("package_name", "StrictStr", TRUE),
             Param("version", "StrictStr", TRUE)>>
      [] m = "package_urls" ->
           <<Param("package_name", "Any", TRUE), Param("version", "Any", TRUE)>>
      [] m = "release_urls" ->
           <<Param("package_name", "StrictStr", TRUE),
             Param("version", "StrictStr", TRUE)>>
      [] m = "package_roles" -> <<Param("package_name", "StrictStr", TRUE)>>
      [] m = "changelog_last_serial" -> <<>>
      [] m = "changelog_since_serial" -> <<Param("serial", "StrictInt", TRUE)>>
      [] m = "changelog" ->
           <<Param("since", "StrictInt", TRUE),
             Param("with_ids", "StrictBool", FALSE)>>
      [] m = "browse" -> <<Param("classifiers", "list[StrictStr]", TRUE)>>
      [] m = "system.multicall" -> <<Param("args", "Any", TRUE)>>

\* The view bodies that only raise: the deprecated and removed methods.
DeprecatedMethods ==
    {"search", "top_packages", "package_data", "package_urls",
     "system.multicall"}

-----------------------------------------------------------------------------
(* pydantic's ValidatedFunction on the signature: one error per failed     *)
(* field validator, in field order; every field is validated, a failure    *)
(* does not stop the others.  An error is its loc (printed as the Python   *)
(* tuple it is) and its msg.                                               *)

Err(p, l, m) == [param |-> p, loc |-> l, msg |-> m]

Loc1(n) == "('" \o n \o "',)"

LocIdx(n, i) == "('" \o n \o "', " \o ToString(i) \o ")"

LocKey(n, k) == "('" \o n \o "', '" \o k \o "')"

\* The key of the i-th member of a struct.
KeyOf(i) == "k" \o ToString(i)

StrictErrors(n, l, v, pytype, msg) ==
    IF v = "NoneType" THEN <<Err(n, l, "none is not an allowed value")>>
    ELSE IF v = pytype THEN <<>>
    ELSE <<Err(n, l, msg)>>

RECURSIVE ListItemErrors(_, _, _)
ListItemErrors(n, items, i) ==
    IF i > Len(items) THEN <<>>
    ELSE StrictErrors(n, LocIdx(n, i - 1), items[i], "str", "str type expected")
         \o ListItemErrors(n, items, i + 1)

\* StrictStr | list[StrictStr]: on failure, one error per member of the union.
RECURSIVE MappingItemErrors(_, _, _)
MappingItemErrors(n, items, i) ==
    IF i > Len(items) THEN <<>>
    ELSE (IF items[i] = "str" THEN <<>>
          ELSE IF items[i] = "NoneType"
          THEN <<Err(n, LocKey(n, KeyOf(i)), "none is not an allowed value")>>
          ELSE <<Err(n, LocKey(n, KeyOf(i)), "str type expected"),
                 Err(n, LocKey(n, KeyOf(i)), "value is not a valid list")>>)
         \o MappingItemErrors(n, items, i + 1)

FieldErrors(p, v) ==
    CASE p.ann = "Any" -> <<>>
      [] p.ann = "StrictStr" ->
           StrictErrors(p.name, Loc1(p.name), v.type, "str", "str type expected")
      [] p.ann = "StrictInt" ->
           StrictErrors(p.name, Loc1(p.name), v.type, "int",
                        "value is not a valid integer")
      [] p.ann = "StrictBool" ->
           StrictErrors(p.name, Loc1(p.name), v.type, "bool",
                        "value is not a valid boolean")
      [] p.ann = "StrictInt | None" ->
           IF v.type = "NoneType" THEN <<>>
           ELSE StrictErrors(p.name, Loc1(p.name), v.type, "int",
                             "value is not a valid integer")
      [] p.ann = "list[StrictStr]" ->
           IF v.type = "NoneType"
           THEN <<Err(p.name, Loc1(p.name), "none is not an allowed value")>>
           ELSE IF v.type # "list"
           THEN <<Err(p.name, Loc1(p.name), "value is not a valid list")>>
           ELSE ListItemErrors(p.name, v.items, 1)
      [] p.ann = "Mapping[StrictStr, StrictStr | list[StrictStr]]" ->
           IF v.type = "NoneType"
           THEN <<Err(p.name, Loc1(p.name), "none is not an allowed value")>>
           ELSE IF v.type # "dict"
           THEN <<Err(p.name, Loc1(p.name), "value is not a valid dict")>>
           ELSE MappingItemErrors(p.name, v.items, 1)

\* The field that takes surplus positional arguments: "args", unless the
\* function has a parameter of that name.
VArgsName(sig) ==
    IF \E i \in 1..Len(sig) : sig[i].name = "args" THEN "v__args" ELSE "args"

\* check_args: request and the declared parameters are the positional
\* arguments expected.
SurplusErrors(sig, args) ==
    IF Len(args) <= Len(sig) THEN <<>>
    ELSE <<Err(VArgsName(sig), Loc1(VArgsName(sig)),
               ToString(Len(sig) + 1) \o " positional arguments expected but "
               \o ToString(Len(args) + 1) \o " given")>>

RECURSIVE ParamErrors(_, _, _)
ParamErrors(sig, args, i) ==
    IF i > Len(sig) THEN <<>>
    ELSE (IF i <= Len(args) THEN FieldErrors(sig[i], args[i])
          ELSE IF sig[i].required
          THEN <<Err(sig[i].name, Loc1(sig[i].name), "field required")>>
          ELSE <<>>)
         \o ParamErrors(sig, args, i + 1)

\* exc.errors() of validated.model(**validated.build_values(args, kwargs))
ValidationErrors(sig, args) == ParamErrors(sig, args, 1) \o SurplusErrors(sig, args)

-----------------------------------------------------------------------------
(* Outcomes of a call (a return or a raise), faults and responses          *)

NoOutcome == [kind |-> "none", cls |-> "", code |-> 0, text |-> <<>>]

Returned(v) == [kind |-> "return", cls |-> "", code |-> 0, text |-> v]

Raised(c, k, t) == [kind |-> "raise", cls |-> c, code |-> k, text |-> t]

\* The exception classes that are xmlrpc.client.Fault (XmlRpcError is one).
FaultClasses ==
    {"XMLRPCWrappedError", "XMLRPCInvalidParamTypes", "XMLRPCServiceUnavailable",
     "XmlRpcApplicationError"}

XMLRPCServiceUnavailable_faultCode == -32403

XMLRPCWrappedError_faultCode == -32500

\* pyramid_rpc.xmlrpc.XmlRpcInvalidMethodParams.faultCode, which
\* XMLRPCInvalidParamTypes inherits
XmlRpcInvalidMethodParams_faultCode == -32602

\* pyramid_rpc.xmlrpc.XmlRpcApplicationError.faultCode
XmlRpcApplicationError_faultCode == -32500

XMLRPCServiceUnavailable ==
    Raised("XMLRPCServiceUnavailable", XMLRPCServiceUnavailable_faultCode,
           <<"server error; service unavailable">>)

\* faultString is "client error; {exc}"
XMLRPCInvalidParamTypes(exc) ==
    Raised("XMLRPCInvalidParamTypes", XmlRpcInvalidMethodParams_faultCode,
           <<"client error; ">> \o exc)

\* A plausible slip: the wrapped error given the invalid-parameters code.
XMLRPCWrappedError_ParamsCode(exc) ==
    Raised("XMLRPCWrappedError", XmlRpcInvalidMethodParams_faultCode,
           <<exc.cls, ": ">> \o exc.text)

\* faultString is "{exc.__class__.__name__}: {exc}"
XMLRPCWrappedError(exc) ==
    Raised("XMLRPCWrappedError", XMLRPCWrappedError_faultCode,
           <<exc.cls, ": ">> \o exc.text)

XmlRpcApplicationError ==
    Raised("XmlRpcApplicationError", XmlRpcApplicationError_faultCode,
           <<"server error; application error">>)

\* An exception that is no fault: a class and its message.
Exc(c, t) == [cls |-> c, text |-> t]

NoResponse == [faults |-> <<>>, values |-> <<>>, errors |-> <<>>]

-----------------------------------------------------------------------------
(* Requests, endpoints and the view configuration xmlrpc_method registers  *)

Endpoints == {"xmlrpc.RPC2", "xmlrpc.pypi", "xmlrpc.pypi_slash"}

Callers == {"198.51.100.7", "203.0.113.9"}

NoRequest ==
    [endpoint |-> "", method |-> "", verb |-> "", remote_addr |-> "",
     args |-> <<>>]

\* A view registered with every default but one decorator missing.
xmlrpc_method_MissingRatelimit(endpoint, method) ==
    [endpoint |-> endpoint, method |-> method, require_csrf |-> FALSE,
     require_methods |-> {"POST"},
     decorator |-> IF endpoint = "xmlrpc.pypi_slash"
                   THEN <<"submit_xmlrpc_metrics">>
                   ELSE <<"submit_xmlrpc_metrics", "ratelimit">>,
     mapper |-> "TypedMapplyViewMapper"]

\* The keyword arguments of _xmlrpc_method(endpoint=..., **kwargs): the same
\* for the three endpoints the decorator chains.
xmlrpc_method(endpoint, method) ==
    [endpoint |-> endpoint, method |-> method, require_csrf |-> FALSE,
     require_methods |-> {"POST"},
     decorator |-> <<"submit_xmlrpc_metrics", "ratelimit">>,
     mapper |-> "TypedMapplyViewMapper"]

ViewConfig == xmlrpc_method(req.endpoint, req.method)

\* The callables around the view function, outermost first: the decorators,
\* then the mapper.
Chain(cfg) == cfg.decorator \o <<cfg.mapper>>

PcOf(callable) ==
    CASE callable = "submit_xmlrpc_metrics" -> "metrics"
      [] callable = "ratelimit" -> "ratelimit_hit"
      [] callable = "TypedMapplyViewMapper" -> "mapply"

EntryPc(cfg) == PcOf(Chain(cfg)[1])

\* Where f(context, request) of the named callable leads.
InnerPc(cfg, callable) ==
    LET i == CHOOSE j \in 1..Len(Chain(cfg)) : Chain(cfg)[j] = callable
    IN  PcOf(Chain(cfg)[i + 1])

HasMetrics(cfg) == "submit_xmlrpc_metrics" \in Range(cfg.decorator)

\* Where a return or a raise of an inner callable leads: through the timed
\* block of the metrics decorator when there is one.
UnwindPc(cfg) == IF HasMetrics(cfg) THEN "timed_exit" ELSE "render"

-----------------------------------------------------------------------------
(* The services a request reaches, and the record of the calls made         *)

Ev(svc, op, tag) == [svc |-> svc, op |-> op, tag |-> tag, args |-> <<>>]

EvCall(svc, op, tag, args) == [svc |-> svc, op |-> op, tag |-> tag, args |-> args]

Tag(method) == "rpc_method:" \o method

NoDuration == [isNone |-> TRUE, ms |-> 0]

Millis(n) == [isNone |-> FALSE, ms |-> n]

\* What IRateLimiter.resets_in may answer.
ResetsInAnswers == {NoDuration, Millis(200), Millis(1500), Millis(2000)}

NoVerdict == [tested |-> FALSE, ok |-> TRUE, resets |-> NoDuration]

\* IRateLimiter.test: whether the identity is within its quota.
limiter_test(identity) == window[identity] <= Quota

Max(a, b) == IF a >= b THEN a ELSE b

\* int(timedelta.total_seconds()): the float truncated toward zero.
IntTotalSeconds(d) ==
    IF d.ms >= 0 THEN d.ms \div 1000 ELSE -((-d.ms) \div 1000)

\* The hint without its floor of one second.
ResetsInSeconds_NoFloor(d) == IntTotalSeconds(d)

\* _resets_in = max(1, int(_resets_in.total_seconds()))
ResetsInSeconds(d) == Max(1, IntTotalSeconds(d))

TooManyRequestsMessage ==
    "The action could not be performed because there were too many requests by the client."

\* The message of the HTTPTooManyRequests that ratelimit().wrapped raises.
RatelimitMessage(d) ==
    IF d.isNone THEN <<TooManyRequestsMessage>>
    ELSE <<TooManyRequestsMessage, " Limit may reset in ",
           ToString(ResetsInSeconds(d)), " seconds.">>

-----------------------------------------------------------------------------
(* The view bodies: what each does with the data-access interface           *)
(* (request.db) and what it returns or raises.                              *)

XMLRPC_DEPRECATION_URL ==
    "https://warehouse.pypa.io/api-reference/xml-rpc.html#deprecated-methods"

\* request.registry.settings.get("warehouse.domain", request.domain)
Domain == "{domain}"

DbQuery(entity) == Ev("db", "query", entity)

Ran(events, outcome) == [events |-> events, outcome |-> outcome]

DeprecatedMessage ==
    <<"This API has been deprecated. ", "See ", XMLRPC_DEPRECATION_URL,
      " for more information.">>

\* top_packages as it was while the API existed: a query for the rows.
view_TopPackagesQueries(method) ==
    IF method \in DeprecatedMethods \ {"top_packages"}
    THEN Ran(<<>>, XMLRPCWrappedError(Exc("RuntimeError", DeprecatedMessage)))
    ELSE Ran(<<DbQuery("Project")>>, Returned(<<"rows">>))

view(method) ==
    CASE method = "search" ->
           Ran(<<>>,
               XMLRPCWrappedError(Exc("RuntimeError",
                   <<"PyPI no longer supports 'pip search' (or XML-RPC search). ",
                     "Please use https://", Domain,
                     "/search (via a browser) instead. ",
                     "See ", XMLRPC_DEPRECATION_URL, " for more information.">>)))
      [] method = "list_packages" ->
           Ran(<<DbQuery("Project.name")>>, Returned(<<"names">>))
      [] method = "list_packages_with_serial" ->
           Ran(<<DbQuery("Project.name, Project.last_serial")>>,
               Returned(<<"serials">>))
      [] method = "package_hosting_mode" -> Ran(<<>>, Returned(<<"pypi-only">>))
      [] method = "user_packages" ->
           Ran(<<DbQuery("Role")>>, Returned(<<"roles">>))
      [] method = "top_packages" ->
           Ran(<<>>,
               XMLRPCWrappedError(Exc("RuntimeError",
                   <<"This API has been removed. Use BigQuery instead. ",
                     "See ", XMLRPC_DEPRECATION_URL, " for more information.">>)))
      [] method = "package_releases" ->
           Ran(<<DbQuery("Project")>>, Returned(<<"versions">>))
      [] method = "package_data" ->
           Ran(<<>>, XMLRPCWrappedError(Exc("RuntimeError", DeprecatedMessage)))
      [] method = "release_data" ->
           Ran(<<DbQuery("Release")>>, Returned(<<"release">>))
      [] method = "package_urls" ->
           Ran(<<>>, XMLRPCWrappedError(Exc("RuntimeError", DeprecatedMessage)))
      [] method = "release_urls" ->
           Ran(<<DbQuery("File")>>, Returned(<<"files">>))
      [] method = "package_roles" ->
           Ran(<<DbQuery("Role")>>, Returned(<<"roles">>))
      [] method = "changelog_last_serial" ->
           Ran(<<DbQuery("max(JournalEntry.id)")>>, Returned(<<"serial">>))
      [] method = "changelog_since_serial" ->
           Ran(<<DbQuery("JournalEntry")>>, Returned(<<"entries">>))
      [] method = "changelog" ->
           Ran(<<DbQuery("JournalEntry")>>, Returned(<<"entries">>))
      [] method = "browse" ->
           Ran(<<DbQuery("Project.name, Release.version")>>,
               Returned(<<"releases">>))
      [] method = "system.multicall" ->
           Ran(<<>>,
               XMLRPCWrappedError(Exc("ValueError",
                   <<"MultiCall requests have been deprecated, use individual ",
                     "requests instead.">>)))

-----------------------------------------------------------------------------
(* The exception views                                                      *)

\* pyramid_rpc's exception view: a fault is rendered as it is, any other
\* exception as the generic application error.
pyramid_rpc_exception_view(exc) ==
    IF exc.cls \in FaultClasses THEN exc ELSE XmlRpcApplicationError

\* The method-not-allowed response handed back as the view's response.
exception_view_ReturnsExc(exc) ==
    IF exc.cls = "HTTPMethodNotAllowed" THEN [exc EXCEPT !.kind = "http"]
    ELSE pyramid_rpc_exception_view(exc)

\* exception_view, registered for the route xmlrpc.pypi
exception_view(exc) ==
    IF exc.cls = "HTTPMethodNotAllowed" THEN XmlRpcApplicationError
    ELSE pyramid_rpc_exception_view(exc)

\* The exception view of the request's route: exception_view where the
\* module registers it, the endpoint's own elsewhere.
ExceptionViewResult(endpoint, exc) ==
    IF endpoint = "xmlrpc.pypi" THEN exception_view(exc)
    ELSE pyramid_rpc_exception_view(exc)

-----------------------------------------------------------------------------
(* The requests drawn, and the initial states                               *)

\* The argument lists of the requests of a many-request run.
SampleArgs ==
    {<<>>, <<PyStr>>, <<PyInt>>, <<PyStr, PyStr>>, <<PyDict(<<"str">>)>>}

\* The values of the argument lists of a validation run.
ArgValues ==
    {PyStr, PyInt, PyBool, PyNone, PyList(<<"str">>), PyList(<<"str", "int">>),
     PyDict(<<"str">>), PyDict(<<"int">>)}

Request(e, m, v, c, a) ==
    [endpoint |-> e, method |-> m, verb |-> v, remote_addr |-> c, args |-> a]

PostRequests(args) ==
    {Request(e, m, "POST", c, a) :
        e \in Endpoints, m \in Methods, c \in Callers, a \in args}

GetRequests ==
    {Request(e, m, "GET", c, <<>>) : e \in Endpoints, m \in Methods, c \in Callers}

Zero == [c \in Callers |-> 0]

Snapshot(h, w, r) == [hits |-> h, window |-> w, reached |-> r]

NoFirst ==
    [set |-> FALSE, endpoint |-> "", verdict |-> NoVerdict,
     response |-> NoResponse, trace |-> <<>>, pre |-> Snapshot(Zero, Zero, Zero)]

NoText == [isNone |-> TRUE, s |-> <<>>]

CleanIdle == data = NoText /\ cleaned = NoText /\ recleaned = NoText

Fresh ==
    /\ verdict = NoVerdict
    /\ trace = <<>>
    /\ inner = NoOutcome
    /\ outer = NoOutcome
    /\ response = NoResponse

\* The per-request state cleared for a new request.
Clear ==
    /\ verdict' = NoVerdict
    /\ trace' = <<>>
    /\ inner' = NoOutcome
    /\ outer' = NoOutcome
    /\ response' = NoResponse

Init ==
    /\ pc = "idle"
    /\ req = NoRequest
    /\ calls = 0
    /\ hits = Zero
    /\ window = Zero
    /\ reached = Zero
    /\ first = NoFirst
    /\ Fresh
    /\ CleanIdle

-----------------------------------------------------------------------------
(* The steps of one request                                                 *)

Receive ==
    /\ pc \in {"idle", "done"}
    /\ calls < MaxCalls
    /\ \E r \in PostRequests(SampleArgs) \cup GetRequests : req' = r
    /\ pc' = "received"
    /\ calls' = calls + 1
    /\ Clear
    /\ UNCHANGED <<hits, window, reached, first>>
    /\ UNCHANGED cleanVars

\* The call f(context, request) of the next callable: entering
\* ratelimit().wrapped is what reached counts.
GoTo(next) ==
    /\ pc' = next
    /\ reached' = IF next = "ratelimit_hit"
                  THEN [reached EXCEPT ![req.remote_addr] = @ + 1]
                  ELSE reached

\* A return or a raise of the decorated view.
Unwind(outcome) ==
    /\ pc' = UnwindPc(ViewConfig)
    /\ inner' = outcome
    /\ outer' = IF HasMetrics(ViewConfig) THEN outer ELSE outcome

\* require_methods=["POST"]: any other verb is HTTPMethodNotAllowed, raised
\* before the decorated view is called.
require_methods ==
    /\ pc = "received"
    /\ IF req.verb \in ViewConfig.require_methods
       THEN GoTo(EntryPc(ViewConfig)) /\ UNCHANGED outer
       ELSE /\ pc' = "render"
            /\ outer' = Raised("HTTPMethodNotAllowed", 0, <<>>)
            /\ UNCHANGED reached
    /\ UNCHANGED <<req, calls, hits, window, verdict, trace, inner, response, first>>
    /\ UNCHANGED cleanVars

\* submit_xmlrpc_metrics(method).wrapped, up to the call of f
submit_xmlrpc_metrics ==
    /\ pc = "metrics"
    /\ trace' = trace \o
           <<Ev("metrics", "increment:warehouse.xmlrpc.call",
                Tag(ViewConfig.method)),
             Ev("metrics", "timed.enter:warehouse.xmlrpc.timing",
                Tag(ViewConfig.method))>>
    /\ GoTo(InnerPc(ViewConfig, "submit_xmlrpc_metrics"))
    /\ UNCHANGED <<req, calls, hits, window, verdict, inner, outer, response, first>>
    /\ UNCHANGED cleanVars

\* The hit optimized away: the quota is tested with nothing recorded.
ratelimit_hit_Skipped ==
    /\ pc = "ratelimit_hit"
    /\ pc' = "ratelimit_test"
    /\ UNCHANGED <<req, calls, hits, window, reached, verdict, trace, inner,
                   outer, response, first>>
    /\ UNCHANGED cleanVars

\* ratelimit().wrapped: ratelimiter.hit(request.remote_addr)
ratelimit_hit ==
    /\ pc = "ratelimit_hit"
    /\ hits' = [hits EXCEPT ![req.remote_addr] = @ + 1]
    /\ window' = [window EXCEPT ![req.remote_addr] = @ + 1]
    /\ trace' = trace \o <<Ev("ratelimiter", "hit", req.remote_addr)>>
    /\ pc' = "ratelimit_test"
    /\ UNCHANGED <<req, calls, reached, verdict, inner, outer, response, first>>
    /\ UNCHANGED cleanVars

\* The rest of ratelimit().wrapped, given what the over-quota branch does
\* once it has built its fault: raise it (the code) or go on.
RatelimitTest(raises) ==
    /\ pc = "ratelimit_test"
    /\ LET ok == limiter_test(req.remote_addr)
       IN  \E d \in (IF ok THEN {NoDuration} ELSE ResetsInAnswers) :
             /\ verdict' = [tested |-> TRUE, ok |-> ok, resets |-> d]
             /\ IF ok
                THEN /\ trace' = trace \o
                          <<Ev("ratelimiter", "test", req.remote_addr),
                            Ev("metrics", "increment:warehouse.xmlrpc.ratelimiter.hit", "")>>
                     /\ GoTo(InnerPc(ViewConfig, "ratelimit"))
                     /\ UNCHANGED <<inner, outer>>
                ELSE /\ trace' = trace \o
                          <<Ev("ratelimiter", "test", req.remote_addr),
                            Ev("metrics", "increment:warehouse.xmlrpc.ratelimiter.exceeded", ""),
                            Ev("ratelimiter", "resets_in", req.remote_addr)>>
                     /\ IF raises
                        THEN /\ Unwind(XMLRPCWrappedError(
                                    Exc("HTTPTooManyRequests", RatelimitMessage(d))))
                             /\ UNCHANGED reached
                        ELSE /\ GoTo(InnerPc(ViewConfig, "ratelimit"))
                             /\ UNCHANGED <<inner, outer>>
    /\ UNCHANGED <<req, calls, hits, window, response, first>>
    /\ UNCHANGED cleanVars

\* The raise left out of the over-quota branch.
ratelimit_test_NoRaise == RatelimitTest(FALSE)

\* ratelimit().wrapped after the hit: the test, the fault or the call of f
ratelimit_test == RatelimitTest(TRUE)

\* f"{e['loc']}: {e['msg']}"
ErrorEntry(e) == e.loc \o ": " \o e.msg

ErrorEntries(errors) == [i \in 1..Len(errors) |-> ErrorEntry(errors[i])]

\* TypedMapplyViewMapper.mapply, given the errors the validation reports.
Mapply(errors) ==
    /\ pc = "mapply"
    /\ trace' = trace \o <<EvCall("mapper", "validate", req.method, req.args)>>
    /\ IF errors # <<>>
       THEN Unwind(XMLRPCInvalidParamTypes(Join(ErrorEntries(errors), "; ")))
       ELSE pc' = "view" /\ UNCHANGED <<inner, outer>>
    /\ UNCHANGED <<req, calls, hits, window, reached, verdict, response, first>>
    /\ UNCHANGED cleanVars

\* Only the first error reported.
mapply_FirstErrorOnly ==
    LET errors == ValidationErrors(Signature(req.method), req.args)
    IN  Mapply(IF errors = <<>> THEN <<>> ELSE <<errors[1]>>)

\* TypedMapplyViewMapper.mapply
mapply == Mapply(ValidationErrors(Signature(req.method), req.args))

\* super().mapply(fn, args, kwargs): the view function called with the
\* request's arguments.
call_view ==
    /\ pc = "view"
    /\ LET ran == view(req.method)
       IN  /\ trace' = trace \o <<EvCall("view", "call", req.method, req.args)>>
                             \o ran.events
           /\ Unwind(ran.outcome)
    /\ UNCHANGED <<req, calls, hits, window, reached, verdict, response, first>>
    /\ UNCHANGED cleanVars

\* The timed block left with what it passes on.
TimedExit(passed) ==
    /\ pc = "timed_exit"
    /\ trace' = trace \o
           <<Ev("metrics", "timed.exit:warehouse.xmlrpc.timing",
                Tag(ViewConfig.method))>>
    /\ outer' = passed
    /\ pc' = "render"
    /\ UNCHANGED <<req, calls, hits, window, reached, verdict, inner, response, first>>
    /\ UNCHANGED cleanVars

\* A fault swallowed by the wrapper.
timed_exit_Swallows ==
    TimedExit(IF inner.kind = "raise" THEN Returned(<<>>) ELSE inner)

\* submit_xmlrpc_metrics(method).wrapped: return f(context, request) inside
\* the timed block, which a return and a raise both leave.
timed_exit == TimedExit(inner)

\* The renderer: a returned value is rendered; a raised exception goes to
\* the exception view of the route.
render ==
    /\ pc = "render"
    /\ LET handled == ExceptionViewResult(req.endpoint, outer)
       IN  response' =
             IF outer.kind = "return"
             THEN [response EXCEPT !.values = Append(@, outer.text)]
             ELSE IF handled.kind = "raise"
             THEN [response EXCEPT
                      !.faults = Append(@, [code |-> handled.code,
                                            string |-> handled.text])]
             ELSE [response EXCEPT !.errors = Append(@, handled.cls)]
    /\ pc' = "done"
    /\ UNCHANGED <<req, calls, hits, window, reached, verdict, trace, inner,
                   outer, first>>
    /\ UNCHANGED cleanVars

\* The limiter's window expires.
WindowReset ==
    /\ \E c \in Callers : window[c] > 0
    /\ window' = Zero
    /\ UNCHANGED <<pc, req, calls, hits, reached, verdict, trace, inner, outer,
                   response, first>>
    /\ UNCHANGED cleanVars

Pipeline ==
    \/ require_methods
    \/ submit_xmlrpc_metrics
    \/ ratelimit_hit
    \/ ratelimit_test
    \/ mapply
    \/ call_view
    \/ timed_exit
    \/ render

Next == Receive \/ WindowReset \/ Pipeline

Spec == Init /\ [][Next]_vars

-----------------------------------------------------------------------------
(* The same request served again on another endpoint, from the same state  *)
(* of the limiter                                                           *)

InitAlias ==
    /\ pc = "received"
    /\ req \in PostRequests(SampleArgs) \cup GetRequests
    /\ \E h \in [Callers -> 0..Quota] :
         /\ hits = h
         /\ window = h
         /\ reached = h
         /\ first = [NoFirst EXCEPT !.pre = Snapshot(h, h, h)]
    /\ calls = 1
    /\ Fresh
    /\ CleanIdle

Replay ==
    /\ pc = "done"
    /\ ~first.set
    /\ \E e \in Endpoints \ {req.endpoint} : req' = [req EXCEPT !.endpoint = e]
    /\ first' = [first EXCEPT !.set = TRUE, !.endpoint = req.endpoint,
                              !.verdict = verdict, !.response = response,
                              !.trace = trace]
    /\ hits' = first.pre.hits
    /\ window' = first.pre.window
    /\ reached' = first.pre.reached
    /\ pc' = "received"
    /\ Clear
    /\ UNCHANGED calls
    /\ UNCHANGED cleanVars

NextAlias == Replay \/ Pipeline

SpecAlias == InitAlias /\ [][NextAlias]_vars

-----------------------------------------------------------------------------
(* One request with any argument list, through the pipeline                 *)

InitValidate ==
    /\ pc = "received"
    /\ req \in {Request(e, m, "POST", "198.51.100.7", a) :
                  e \in Endpoints, m \in Methods,
                  a \in SeqsUpTo(ArgValues, MaxArgs)}
    /\ calls = 1
    /\ hits = Zero
    /\ window = Zero
    /\ reached = Zero
    /\ first = NoFirst
    /\ Fresh
    /\ CleanIdle

SpecValidate == InitValidate /\ [][Pipeline]_vars

-----------------------------------------------------------------------------
(* The sanitizer.  A text is None or a sequence of code points.             *)

Text(s) == [isNone |-> FALSE, s |-> s]

\* _illegal_ranges, as pairs of code points
IllegalRanges ==
    <<<<0, 8>>, <<11, 12>>, <<14, 31>>, <<127, 132>>, <<134, 159>>,
      <<64976, 65007>>, <<65534, 65535>>, <<131070, 131071>>,
      <<196606, 196607>>, <<262142, 262143>>, <<327678, 327679>>,
      <<393214, 393215>>, <<458750, 458751>>, <<524286, 524287>>,
      <<589822, 589823>>, <<655358, 655359>>, <<720894, 720895>>,
      <<786430, 786431>>, <<851966, 851967>>, <<917502, 917503>>,
      <<983038, 983039>>, <<1048574, 1048575>>, <<1114110, 1114111>>>>

\* _illegal_xml_chars_re matches the code point
IsIllegalXmlChar(cp) ==
    \E i \in 1..Len(IllegalRanges) :
        IllegalRanges[i][1] <= cp /\ cp <= IllegalRanges[i][2]

\* The decimal digits of n, as code points
RECURSIVE Digits(_)
Digits(n) ==
    IF n < 10 THEN <<48 + n>> ELSE Digits(n \div 10) \o <<48 + (n % 10)>>

\* The xmlcharrefreplace error handler: "&#" digits ";"
XmlCharRef(cp) == <<38, 35>> \o Digits(cp) \o <<59>>

\* data.encode("ascii", "xmlcharrefreplace").decode("ascii")
EncodeAscii(s) ==
    Flatten([i \in 1..Len(s) |-> IF s[i] < 128 THEN <<s[i]>> ELSE XmlCharRef(s[i])])

IsLegal(cp) == ~IsIllegalXmlChar(cp)

\* _illegal_xml_chars_re.sub("", data)
StripIllegal(s) == SelectSeq(s, IsLegal)

\* The characters encoded and nothing removed.
clean_for_xml_NoSub(d) ==
    IF ~d.isNone /\ d.s # <<>> THEN Text(EncodeAscii(d.s)) ELSE d

\* _clean_for_xml
clean_for_xml(d) ==
    IF ~d.isNone /\ d.s # <<>> THEN Text(StripIllegal(EncodeAscii(d.s))) ELSE d

\* The code points the inputs are made of: NUL, tab, "&", "A", DEL, NEL
\* (U+0085), the ellipsis (U+2026) and the noncharacter U+FFFF.
CodePoints == {0, 9, 38, 65, 127, 133, 8230, 65535}

Texts == {NoText} \cup {Text(s) : s \in SeqsUpTo(CodePoints, MaxLen)}

InitClean ==
    /\ pc = "clean"
    /\ req = NoRequest
    /\ calls = 0
    /\ hits = Zero
    /\ window = Zero
    /\ reached = Zero
    /\ first = NoFirst
    /\ Fresh
    /\ data \in Texts
    /\ cleaned = NoText
    /\ recleaned = NoText

Clean ==
    /\ pc = "clean"
    /\ cleaned' = clean_for_xml(data)
    /\ pc' = "cleaned"
    /\ UNCHANGED <<data, recleaned>>
    /\ UNCHANGED <<req, calls, hits, window, reached, verdict, trace, inner,
                   outer, response, first>>

CleanAgain ==
    /\ pc = "cleaned"
    /\ recleaned' = clean_for_xml(cleaned)
    /\ pc' = "recleaned"
    /\ UNCHANGED <<data, cleaned>>
    /\ UNCHANGED <<req, calls, hits, window, reached, verdict, trace, inner,
                   outer, response, first>>

NextClean == Clean \/ CleanAgain

SpecClean == InitClean /\ [][NextClean]_vars

-----------------------------------------------------------------------------
(* What the claims speak of                                                 *)

HitEv == Ev("ratelimiter", "hit", req.remote_addr)

TestEv == Ev("ratelimiter", "test", req.remote_addr)

CallCounterEv(method) ==
    Ev("metrics", "increment:warehouse.xmlrpc.call", Tag(method))

TimedEnterEv == Ev("metrics", "timed.enter:warehouse.xmlrpc.timing", Tag(req.method))

TimedExitEv == Ev("metrics", "timed.exit:warehouse.xmlrpc.timing", Tag(req.method))

ValidateEv == EvCall("mapper", "validate", req.method, req.args)

ViewEv == EvCall("view", "call", req.method, req.args)

ValidatorRan == "mapper" \in {trace[i].svc : i \in 1..Len(trace)}

ViewRan == "view" \in {trace[i].svc : i \in 1..Len(trace)}

DbRead == "db" \in {trace[i].svc : i \in 1..Len(trace)}

\* The request is past ratelimiter.hit in ratelimit().wrapped.
PastHit ==
    /\ req.verb = "POST"
    /\ pc \in {"ratelimit_test", "mapply", "view", "timed_exit", "render", "done"}

Done == pc = "done"

Invoked == Done /\ req.verb = "POST"

RateLimited == Done /\ verdict.tested /\ ~verdict.ok

Admitted == Done /\ verdict.tested /\ verdict.ok

\* Strict conformance of a value to a declared type.
Conforms(v, ann) ==
    CASE ann = "Any" -> TRUE
      [] ann = "StrictStr" -> v.type = "str"
      [] ann = "StrictInt" -> v.type = "int"
      [] ann = "StrictBool" -> v.type = "bool"
      [] ann = "StrictInt | None" -> v.type \in {"int", "NoneType"}
      [] ann = "list[StrictStr]" ->
           v.type = "list" /\ \A i \in 1..Len(v.items) : v.items[i] = "str"
      [] ann = "Mapping[StrictStr, StrictStr | list[StrictStr]]" ->
           v.type = "dict" /\ \A i \in 1..Len(v.items) : v.items[i] = "str"

\* The parameters of the request's method that its arguments violate:
\* missing and required, or given and of the wrong type.
ViolatedParams ==
    LET sig == Signature(req.method)
    IN  {sig[i].name : i \in
           {j \in 1..Len(sig) :
              IF j <= Len(req.args) THEN ~Conforms(req.args[j], sig[j].ann)
              ELSE sig[j].required}}

Surplus == Len(req.args) > Len(Signature(req.method))

FitsSignature == ViolatedParams = {} /\ ~Surplus

Reasons ==
    {"field required", "none is not an allowed value", "str type expected",
     "value is not a valid integer", "value is not a valid boolean",
     "value is not a valid list", "value is not a valid dict"}

\* The "<parameter-path>: <reason>" entries that name parameter p.
EntriesFor(p) ==
    {l \o ": " \o r :
        l \in {Loc1(p)} \cup {LocIdx(p, i) : i \in 0..1}
                        \cup {LocKey(p, KeyOf(i)) : i \in 1..2},
        r \in Reasons}

TheFault == response.faults[1]

OneFault ==
    /\ Len(response.faults) = 1
    /\ response.values = <<>>
    /\ response.errors = <<>>

OneValue ==
    /\ Len(response.values) = 1
    /\ response.faults = <<>>
    /\ response.errors = <<>>

\* C1: every request that enters the rate-limit stage records exactly one
\* hit for its caller, before the quota is tested and whatever becomes of
\* the request; the hits recorded for a caller are the requests of that
\* caller that reached the stage.
C1_HitRecordedBeforeTest ==
    /\ \A c \in Callers :
         hits[c] = reached[c]
                   - (IF pc = "ratelimit_hit" /\ req.remote_addr = c THEN 1 ELSE 0)
    /\ \A j \in 1..Len(trace) :
         trace[j] = TestEv => \E i \in 1..(j - 1) : trace[i] = HitEv
    /\ PastHit => Count(trace, HitEv) = 1

\* C1 witness: a request rejected as over quota, its hit recorded all the
\* same.
C1_Witness ==
    /\ RateLimited
    /\ hits[req.remote_addr] = Quota + 1
    /\ Count(trace, HitEv) = 1

\* C2: once the quota test fails the request ends with the rate-limit fault
\* and neither the validator nor the view runs; once validation fails the
\* view does not run; no response carries both a fault and a value.
C2_FaultIsTerminal ==
    /\ (verdict.tested /\ ~verdict.ok) =>
           /\ ~ValidatorRan /\ ~ViewRan
           /\ pc \in {"timed_exit", "render", "done"}
           /\ Done => /\ OneFault
                      /\ TheFault.string =
                           <<"HTTPTooManyRequests", ": ">>
                           \o RatelimitMessage(verdict.resets)
    /\ (ValidatorRan /\ ~FitsSignature) =>
           /\ ~ViewRan
           /\ pc # "view"
    /\ ~(response.faults # <<>> /\ response.values # <<>>)
    /\ Done => Len(response.faults) + Len(response.values)
               + Len(response.errors) = 1

\* C2 witness: a request over quota whose arguments also violate the
\* signature ends with the rate-limit fault.
C2_Witness ==
    /\ RateLimited
    /\ ~FitsSignature
    /\ OneFault

\* C3: the same request (method, arguments, caller), served from the same
\* state of the limiter and given the same answers by it, has the same
\* response and makes the same service calls on a second endpoint as on the
\* first; on each the metrics, the rate limiter and (when admitted) the
\* validator are called.
C3_EndpointsAgree ==
    (Done /\ first.set) =>
        /\ first.verdict = verdict =>
              /\ response = first.response
              /\ trace = first.trace
        /\ hits = [first.pre.hits EXCEPT
                      ![req.remote_addr] = @ + Count(first.trace, HitEv)]
        /\ req.verb = "POST" =>
              /\ Count(trace, CallCounterEv(req.method)) = 1
              /\ Count(trace, HitEv) = 1
              /\ Count(trace, TestEv) = 1
              /\ verdict.ok => Count(trace, ValidateEv) = 1

\* C3 witness: a request answered with a value on xmlrpc.RPC2 and then
\* served on xmlrpc.pypi_slash.
C3_Witness ==
    /\ Done
    /\ first.set
    /\ first.endpoint = "xmlrpc.RPC2"
    /\ req.endpoint = "xmlrpc.pypi_slash"
    /\ first.verdict = verdict
    /\ OneValue

ValidationFailed == Admitted /\ ~FitsSignature

HandlerFailed == Done /\ ViewRan /\ response.faults # <<>>

\* The code each raising place gives its fault.
ValidationCode == XMLRPCInvalidParamTypes(<<>>).code

RateLimitCode == XMLRPCWrappedError(Exc("HTTPTooManyRequests", <<>>)).code

HandlerErrorCode == view("package_data").outcome.code

ServiceUnavailableCode == XMLRPCServiceUnavailable.code

\* C5 as stated: the fault code of each kind of failure differs from the
\* codes of the other two kinds and from the service-unavailable code.
C5_Original_KindsHaveDistinctCodes ==
    /\ ValidationFailed =>
          TheFault.code \notin {RateLimitCode, HandlerErrorCode, ServiceUnavailableCode}
    /\ RateLimited =>
          TheFault.code \notin {ValidationCode, HandlerErrorCode, ServiceUnavailableCode}
    /\ HandlerFailed =>
          TheFault.code \notin {ValidationCode, RateLimitCode, ServiceUnavailableCode}

\* C5 amended: a validation failure has a code of its own (-32602); a
\* rate-limit rejection and a handler's application error carry the one
\* code of the wrapped error (-32500), which differs from the validation
\* code and from the service-unavailable code (-32403); the two are told
\* apart by the message only.
C5_ValidationCodeDistinctWrappedShared ==
    /\ ValidationFailed =>
          /\ OneFault
          /\ TheFault.code = -32602
          /\ TheFault.code \notin {RateLimitCode, HandlerErrorCode, ServiceUnavailableCode}
    /\ RateLimited =>
          /\ OneFault
          /\ TheFault.code = -32500
          /\ TheFault.code \notin {ValidationCode, ServiceUnavailableCode}
          /\ TheFault.string[1] = "HTTPTooManyRequests"
    /\ HandlerFailed =>
          /\ OneFault
          /\ TheFault.code = -32500
          /\ TheFault.code \notin {ValidationCode, ServiceUnavailableCode}
          /\ TheFault.string[1] \in {"RuntimeError", "ValueError"}

\* C5 witness: a rate-limit rejection carrying the code a handler's
\* application error carries.
C5_Witness ==
    /\ RateLimited
    /\ OneFault
    /\ TheFault.code = HandlerErrorCode

\* C6: every invocation of a view increments the call counter tagged with
\* its method exactly once, enters and leaves one timed block around the
\* rest of the pipeline, and passes the inner return or raise on unchanged.
C6_MetricsObserveEveryCall ==
    /\ Invoked =>
          /\ Count(trace, CallCounterEv(req.method)) = 1
          /\ \A m \in Methods \ {req.method} : Count(trace, CallCounterEv(m)) = 0
          /\ Count(trace, TimedEnterEv) = 1
          /\ Count(trace, TimedExitEv) = 1
          /\ trace[1] = CallCounterEv(req.method)
          /\ trace[2] = TimedEnterEv
          /\ trace[Len(trace)] = TimedExitEv
          /\ inner.kind \in {"return", "raise"}
    /\ (req.verb = "POST" /\ pc \in {"render", "done"}) => outer = inner
    /\ (Invoked /\ inner.kind = "return") =>
          response = [NoResponse EXCEPT !.values = <<inner.text>>]
    /\ (Invoked /\ inner.kind = "raise") =>
          response = [NoResponse EXCEPT
                         !.faults = <<[code |-> inner.code, string |-> inner.text]>>]

\* C6 witness: an invocation that ends in a validation failure, counted
\* and timed.
C6_Witness ==
    /\ Invoked
    /\ inner.cls = "XMLRPCInvalidParamTypes"
    /\ Count(trace, CallCounterEv(req.method)) = 1
    /\ Count(trace, TimedExitEv) = 1

\* The entries of the fault string of an InvalidParams fault: every second
\* piece after "client error; ".
FaultEntries ==
    {TheFault.string[i] : i \in {j \in 2..Len(TheFault.string) : j % 2 = 0}}

\* C7: arguments that violate the signature (missing, of the wrong type, or
\* too many) yield exactly one InvalidParams fault whose string is
\* "client error; " and the "<path>: <reason>" entries joined by "; ", with
\* an entry for every violated parameter; arguments that fit the signature
\* reach the view as they were given.
C7_EveryViolationReported ==
    /\ (Admitted /\ ~FitsSignature) =>
          /\ OneFault
          /\ TheFault.code = -32602
          /\ ~ViewRan
          /\ TheFault.string[1] = "client error; "
          /\ Len(TheFault.string) % 2 = 0
          /\ \A i \in 3..Len(TheFault.string) :
                i % 2 = 1 => TheFault.string[i] = "; "
          /\ \A p \in ViolatedParams : FaultEntries \cap EntriesFor(p) # {}
          /\ Surplus => \E e \in FaultEntries :
                           e \notin UNION {EntriesFor(Signature(req.method)[i].name) :
                                              i \in 1..Len(Signature(req.method))}
    /\ (Admitted /\ FitsSignature) =>
          /\ Count(trace, ViewEv) = 1
          /\ \A i \in 1..Len(trace) :
                trace[i].svc = "view" => trace[i].args = req.args

\* C7 witness: changelog("5", "5"): both parameters violated, both named.
C7_Witness ==
    /\ Admitted
    /\ req.method = "changelog"
    /\ req.args = <<PyStr, PyStr>>
    /\ OneFault
    /\ TheFault.string =
         <<"client error; ", "('since',): value is not a valid integer", "; ",
           "('with_ids',): value is not a valid boolean">>

\* The last three pieces of a text.
Tail3(t) == SubSeq(t, Len(t) - 2, Len(t))

CeilSeconds(d) == (d.ms + 999) \div 1000

\* The whole seconds of a duration that is not negative.
WholeSeconds(d) == CHOOSE n \in 0..d.ms : n * 1000 <= d.ms /\ d.ms < (n + 1) * 1000

\* C8 as stated: the hint of a rate-limit fault is the ceiling of the
\* remaining seconds, at least 1; no hint when no reset time is reported.
C8_Original_HintIsCeiling ==
    RateLimited =>
        IF verdict.resets.isNone
        THEN TheFault.string = <<"HTTPTooManyRequests", ": ", TooManyRequestsMessage>>
        ELSE Tail3(TheFault.string) =
               <<" Limit may reset in ",
                 ToString(Max(1, CeilSeconds(verdict.resets))), " seconds.">>

\* C8 amended: the hint is the whole seconds of the remaining duration
\* (the fraction dropped), at least 1; no hint when no reset time is
\* reported.
C8_HintIsWholeSecondsAtLeastOne ==
    RateLimited =>
        IF verdict.resets.isNone
        THEN TheFault.string = <<"HTTPTooManyRequests", ": ", TooManyRequestsMessage>>
        ELSE /\ Len(TheFault.string) = 6
             /\ Tail3(TheFault.string) =
                  <<" Limit may reset in ",
                    ToString(Max(1, WholeSeconds(verdict.resets))), " seconds.">>

\* C8 witness: 1.5 s remaining, "Limit may reset in 1 seconds."
C8_Witness ==
    /\ RateLimited
    /\ verdict.resets = Millis(1500)
    /\ Tail3(TheFault.string) = <<" Limit may reset in ", "1", " seconds.">>

\* The message of the method's deprecation fault, the same on every call.
StableMessage(method) ==
    CASE method = "search" ->
           <<"RuntimeError", ": ",
             "PyPI no longer supports 'pip search' (or XML-RPC search). ",
             "Please use https://", Domain, "/search (via a browser) instead. ",
             "See ", XMLRPC_DEPRECATION_URL, " for more information.">>
      [] method = "top_packages" ->
           <<"RuntimeError", ": ",
             "This API has been removed. Use BigQuery instead. ",
             "See ", XMLRPC_DEPRECATION_URL, " for more information.">>
      [] method \in {"package_data", "package_urls"} ->
           <<"RuntimeError", ": ", "This API has been deprecated. ",
             "See ", XMLRPC_DEPRECATION_URL, " for more information.">>
      [] method = "system.multicall" ->
           <<"ValueError", ": ",
             "MultiCall requests have been deprecated, use individual ",
             "requests instead.">>

\* C9 as stated: an admitted call of a deprecated method, whatever its
\* arguments, ends in the wrapped application error with the method's
\* stable message and reads nothing from the data-access interface.
C9_Original_AnyArgumentsWrappedError ==
    (Admitted /\ req.method \in DeprecatedMethods) =>
        /\ OneFault
        /\ TheFault = [code |-> -32500, string |-> StableMessage(req.method)]
        /\ ~DbRead

\* C9 amended: an admitted call of a deprecated method whose arguments fit
\* its signature ends in the wrapped application error with the method's
\* stable message; one whose arguments violate the signature ends in an
\* InvalidParams fault instead; neither reads from the data-access
\* interface.
C9_DeprecatedFaultsWithoutDataAccess ==
    /\ (Admitted /\ req.method \in DeprecatedMethods) =>
          /\ OneFault
          /\ FitsSignature =>
                TheFault = [code |-> -32500, string |-> StableMessage(req.method)]
          /\ ~FitsSignature =>
                TheFault.code = -32602 /\ TheFault.string[1] = "client error; "
    /\ req.method \in DeprecatedMethods => ~DbRead

\* C9 witness: search called with a struct, answered with its stable
\* message.
C9_Witness ==
    /\ Admitted
    /\ req.method = "search"
    /\ req.args = <<PyDict(<<"str">>)>>
    /\ ViewRan
    /\ TheFault.string[1] = "RuntimeError"

\* The C0 controls other than tab, newline and carriage return, and DEL.
IllegalAscii == (0..31 \ {9, 10, 13}) \cup {127}

\* C10: the sanitizer is idempotent, leaves None and the empty text as they
\* are, and turns a text that is not empty into ASCII code points none of
\* which is illegal.
C10_CleanIdempotentAsciiLegal ==
    /\ pc = "recleaned" => recleaned = cleaned
    /\ pc \in {"cleaned", "recleaned"} =>
          /\ (data.isNone \/ data.s = <<>>) => cleaned = data
          /\ (~data.isNone /\ data.s # <<>>) =>
                /\ ~cleaned.isNone
                /\ \A i \in 1..Len(cleaned.s) :
                      cleaned.s[i] \in 0..127 /\ cleaned.s[i] \notin IllegalAscii

\* C10 witness: "A", the ellipsis and DEL: the ellipsis replaced by its
\* character reference "&#8230;", DEL removed, and cleaning again changes
\* nothing.
C10_Witness ==
    /\ pc = "recleaned"
    /\ data = Text(<<65, 8230, 127>>)
    /\ cleaned = Text(<<65, 38, 35, 56, 50, 51, 48, 59>>)
    /\ recleaned = cleaned

=============================================================================
